---- MODULE Spec2Model ----
(***************************************************************************)
(* A model of src/app.py: the text-overlay compositor add_text_overlay,   *)
(* the generate/overlay/save/display handler generate_and_save_image and  *)
(* the form's generateImage.                                               *)
(*                                                                         *)
(* Strings are sequences of one-character strings.  The horizontal        *)
(* coordinates of the overlay are halves of pixels (line 79 divides by 2  *)
(* in floating point): a field or operator whose name ends in 2 holds     *)
(* twice the pixel value.  Vertical coordinates are whole pixels.          *)
(*                                                                         *)
(* What the libraries answer (whether a font loads, the box textbbox      *)
(* measures, whether the pipeline, the save and the display raise) is the *)
(* environment: it is drawn from bounded sets and consumed by the         *)
(* operation.                                                              *)
(*                                                                         *)
(* The form runs in the browser and the callback in the kernel: the       *)
(* form's generateImage only sends a message (invokeFunction, line 190)   *)
(* and returns; the kernel runs generate_and_save_image when it takes the *)
(* message.  queue holds the messages sent and not yet taken.             *)
(*                                                                         *)
(* trace, heap, ret and written describe the most recent call: what it    *)
(* printed and called, the image objects it made, how it ended and the    *)
(* files it wrote.                                                         *)
(***************************************************************************)
EXTENDS Integers, Sequences, FiniteSets

VARIABLES pc, call, env, pipe, heap, ret, trace, written, queue, browser

vars == <<pc, call, env, pipe, heap, ret, trace, written, queue, browser>>

-----------------------------------------------------------------------------
(* Bounds *)

\* the side of the small test images (next to the pipeline's 512)
MaxImageSide == 2
\* measured text widths and heights range over 0..MaxTextSide
MaxTextSide == 3
\* the measured box's left edge ranges over -MaxBearing..0, its top over 0..MaxBearing
MaxBearing == 2
\* file names are the strings over Alphabet of at most this length
MaxNameLen == 4
\* descriptions and captions are the strings over {"a"} of at most this length
MaxDescLen == 1
\* the messages of the form the kernel has not taken yet are at most this many
MaxQueue == 2

-----------------------------------------------------------------------------
(* Program constants *)

\* line 80: "10px padding from bottom"; the same 10 is the plate's margin at line 84
PADDING == 10
\* the side of the images runwayml/stable-diffusion-v1-5 produces by default
SDSide == 512

Root == <<"/", "c", "o", "n", "t", "e", "n", "t", "/", "d", "r", "i", "v", "e",
          "/", "M", "y", " ", "D", "r", "i", "v", "e">>

PngSuffix == <<".", "p", "n", "g">>

-----------------------------------------------------------------------------
(* Strings *)

Alphabet == {"/", ".", "p", "n", "g"}

StringsOver(A, n) == UNION {[1..k -> A] : k \in 0..n}

\* str.endswith
EndsWith(s, suf) ==
    /\ Len(s) >= Len(suf)
    /\ SubSeq(s, Len(s) - Len(suf) + 1, Len(s)) = suf

\* str.startswith
StartsWith(s, pre) ==
    /\ Len(s) >= Len(pre)
    /\ SubSeq(s, 1, Len(pre)) = pre

\* os.path.join(a, b) of posixpath, as called at line 108
PathJoin(a, b) ==
    IF StartsWith(b, <<"/">>) THEN b
    ELSE IF a = <<>> \/ EndsWith(a, <<"/">>) THEN a \o b
    ELSE a \o <<"/">> \o b

-----------------------------------------------------------------------------
(* Images.  An image object is its size, its colour mode and the drawing   *)
(* operations applied to its pixels since it was produced; the heap is the *)
(* sequence of the live image objects, an object's identity its index.     *)

Modes == {"L", "RGB", "RGBA"}

NoImage == [width |-> 0, height |-> 0, mode |-> "none", draws |-> <<>>]

MakeImage(w, h, m) == [width |-> w, height |-> h, mode |-> m, draws |-> <<>>]

\* the first image of the result of pipe(description), before any overlay
SDImage == MakeImage(SDSide, SDSide, "RGB")

Returned(id) == [kind |-> "returned", id |-> id, exc |-> "none"]

Raised(exc) == [kind |-> "raised", id |-> 0, exc |-> exc]

\* a plausible slip: an image already in the wanted mode is handed back itself
convert_alias(h, id, mode) ==
    IF h[id].mode = mode
    THEN [heap |-> h, id |-> id]
    ELSE [heap |-> Append(h, [h[id] EXCEPT !.mode = mode]), id |-> Len(h) + 1]

\* a plausible slip: the new image is allocated with (height, width)
convert_transposed(h, id, mode) ==
    [heap |-> Append(h, [h[id] EXCEPT !.mode = mode,
                                      !.width = h[id].height,
                                      !.height = h[id].width]),
     id |-> Len(h) + 1]

\* Image.convert (line 56): always a new object of the same size and pixels,
\* a copy when the mode is already the wanted one
convert(h, id, mode) ==
    [heap |-> Append(h, [h[id] EXCEPT !.mode = mode]), id |-> Len(h) + 1]

\* ImageDraw.Draw(im).<op>: the operation lands on the pixels of object id
Draw(h, id, d) == [h EXCEPT ![id].draws = Append(@, d)]

-----------------------------------------------------------------------------
(* Font resolution, lines 60-69.  fonts[1] is what the first               *)
(* ImageFont.load_default() does, fonts[2] what ImageFont.truetype does,   *)
(* fonts[3] what the second load_default() does: "ok" or "IOError".        *)

ResolveFont(fonts) ==
    IF fonts[1] = "ok"
    THEN [font |-> "default", exc |-> "none", out |-> <<>>]
    ELSE IF fonts[2] = "ok"
    THEN [font |-> "DejaVuSans-Bold-30", exc |-> "none", out |-> <<>>]
    ELSE IF fonts[3] = "ok"
    THEN [font |-> "default", exc |-> "none", out |-> <<"print_font_error">>]
    ELSE [font |-> "none", exc |-> "IOError", out |-> <<"print_font_error">>]

-----------------------------------------------------------------------------
(* Measurement and placement, lines 72-87 *)

ZeroBox == [left |-> 0, top |-> 0, right |-> 0, bottom |-> 0]

\* draw.textbbox((0, 0), text, font=font), line 72: the box of the empty string
\* is empty; of any other string it is what the font's metrics make it
textbbox(text, measured) == IF text = <<>> THEN ZeroBox ELSE measured

\* line 73
TextWidth(bbox) == bbox.right - bbox.left

\* line 74
TextHeight(bbox) == bbox.bottom - bbox.top

\* line 79, x = (image_width - text_width) / 2, as twice x
TextX2(image_width, text_width) == image_width - text_width

\* line 80
TextY(image_height, text_height) == image_height - text_height - PADDING

\* a plausible slip: the plate's bottom margin left out
PlateRect_short(x2, y, text_width, text_height) ==
    [left2 |-> x2 - 2 * PADDING, top |-> y - PADDING,
     right2 |-> x2 + 2 * text_width + 2 * PADDING, bottom |-> y + text_height]

\* a plausible slip: the plate clamped to the image's left edge
PlateRect_clamped(x2, y, text_width, text_height) ==
    [left2 |-> IF x2 - 2 * PADDING < 0 THEN 0 ELSE x2 - 2 * PADDING,
     top |-> y - PADDING,
     right2 |-> x2 + 2 * text_width + 2 * PADDING,
     bottom |-> y + text_height + PADDING]

\* line 84: [(x-10, y-10), (x + text_width + 10, y + text_height + 10)]
PlateRect(x2, y, text_width, text_height) ==
    [left2 |-> x2 - 2 * PADDING, top |-> y - PADDING,
     right2 |-> x2 + 2 * text_width + 2 * PADDING,
     bottom |-> y + text_height + PADDING]

RectangleOp(r) ==
    [op |-> "rectangle", left2 |-> r.left2, top |-> r.top, right2 |-> r.right2,
     bottom |-> r.bottom, text |-> <<>>, font |-> "none", fill |-> "0,0,0,128"]

\* draw.text((x, y), ...): the anchor is (x, y); right2 and bottom repeat it
TextOp(x2, y, text, font) ==
    [op |-> "text", left2 |-> x2, top |-> y, right2 |-> x2, bottom |-> y,
     text |-> text, font |-> font, fill |-> "white"]

\* add_text_overlay(image, text), lines 54-89, on the image object id of heap h
add_text_overlay(h, id, text, e) ==
    LET c == convert(h, id, "RGBA")
        f == ResolveFont(e.fonts)
    IN  IF f.exc # "none"
        THEN [heap |-> c.heap, ret |-> Raised(f.exc), out |-> f.out]
        ELSE
          LET bbox == textbbox(text, e.bbox)
              text_width == TextWidth(bbox)
              text_height == TextHeight(bbox)
              image_width == c.heap[c.id].width
              image_height == c.heap[c.id].height
              x2 == TextX2(image_width, text_width)
              y == TextY(image_height, text_height)
              h1 == Draw(c.heap, c.id,
                         RectangleOp(PlateRect(x2, y, text_width, text_height)))
              h2 == Draw(h1, c.id, TextOp(x2, y, text, f.font))
          IN  [heap |-> h2, ret |-> Returned(c.id), out |-> f.out]

-----------------------------------------------------------------------------
(* The handler generate_and_save_image, lines 91-119, and the form.        *)
(* The trace is what a run did, in order: the messages it printed and the  *)
(* calls it made to the generator, the overlay, the save and the display.  *)

Ev(name) == [ev |-> name, path |-> <<>>]

EvPath(name, path) == [ev |-> name, path |-> path]

\* load_model(model_id), lines 37-45: the pipeline, or None when loading raised
load_model(outcome) == IF outcome = "ok" THEN "pipeline" ELSE "None"

\* a plausible slip: the guard tests the other argument
DescriptionMissing_other(description, file_name) == file_name = <<>>

\* line 92: not description
DescriptionMissing(description, file_name) == description = <<>>

\* lines 96-97
FixName(file_name) ==
    IF ~EndsWith(file_name, PngSuffix) THEN file_name \o PngSuffix ELSE file_name

\* line 108
DrivePath(file_name) == PathJoin(Root, file_name)

Result(t, h, d, x) == [trace |-> t, heap |-> h, written |-> d, exc |-> x]

\* lines 107-116, once the overlay has returned image object id of heap h
SaveAndDisplay(t, h, id, description, file_name, e) ==
    LET drive_path == DrivePath(file_name)
        t1 == Append(t, EvPath("save", drive_path))
        d1 == {[path |-> drive_path, image |-> h[id]]}
        t2 == t1 \o <<EvPath("print_saved", drive_path), EvPath("display", drive_path)>>
    IN  IF e.save # "ok" THEN Result(t1, h, {}, e.save)
        ELSE IF e.display # "ok" THEN Result(t2, h, d1, e.display)
        ELSE Result(Append(t2, Ev("print_description")), h, d1, "none")

\* lines 100-116, the body of the try; exc names the exception that left it.
\* A call of None raises TypeError; a library call raises what e says it does.
TryBody(description, file_name, p, e) ==
    LET t0 == <<Ev("print_generating"), Ev("pipe")>>
    IN  IF p = "None" THEN Result(t0, <<>>, {}, "TypeError")
        ELSE IF e.gen # "ok" THEN Result(t0, <<>>, {}, e.gen)
        ELSE
          LET o == add_text_overlay(<<SDImage>>, 1, description, e)
              t1 == Append(t0, Ev("overlay")) \o [i \in 1..Len(o.out) |-> Ev(o.out[i])]
          IN  IF o.ret.kind = "raised" THEN Result(t1, o.heap, {}, o.ret.exc)
              ELSE SaveAndDisplay(t1, o.heap, o.ret.id, description, file_name, e)

\* the exceptions that are not instances of Exception
BaseOnly == {"KeyboardInterrupt", "SystemExit", "GeneratorExit"}

\* isinstance(exc, Exception), the test of line 118
IsException(exc) == exc \notin BaseOnly \cup {"none"}

\* a plausible slip: only I/O errors are caught
ExceptClause_narrow(r) ==
    IF r.exc \in {"IOError", "OSError"}
    THEN [r EXCEPT !.trace = Append(@, Ev("print_error")), !.exc = "none"]
    ELSE r

\* lines 118-119: except Exception as e: print(...); any other exception
\* (KeyboardInterrupt, SystemExit, GeneratorExit) leaves the function
ExceptClause(r) ==
    IF IsException(r.exc)
    THEN [r EXCEPT !.trace = Append(@, Ev("print_error")), !.exc = "none"]
    ELSE r

\* generate_and_save_image(description, file_name), lines 91-119
generate_and_save_image(description, file_name, p, e) ==
    IF DescriptionMissing(description, file_name)
    THEN Result(<<Ev("print_required")>>, <<>>, {}, "none")
    ELSE ExceptClause(TryBody(description, FixName(file_name), p, e))

\* line 185, negated: both inputs are filled
FormFilled(description, filename) == description # <<>> /\ filename # <<>>

Message(description, filename) == [description |-> description, file_name |-> filename]

\* generateImage() of the form, lines 180-191: an alert, or one message to the
\* kernel (invokeFunction is not awaited: the function returns at once)
generateImage(description, filename) ==
    IF ~FormFilled(description, filename)
    THEN [event |-> "alert", send |-> <<>>]
    ELSE [event |-> "invoke", send |-> <<Message(description, filename)>>]

BrowserOf(event, description, filename) ==
    [event |-> event, description |-> description, filename |-> filename]

RetOf(r) == IF r.exc = "none" THEN Returned(0) ELSE Raised(r.exc)

-----------------------------------------------------------------------------
(* Inputs *)

ImageSides == {MaxImageSide, SDSide}

Images == {MakeImage(w, h, m) : w \in ImageSides, h \in ImageSides, m \in Modes}

Captions == StringsOver({"a"}, MaxDescLen)

FileNames == StringsOver(Alphabet, MaxNameLen)

\* the boxes textbbox can measure for a non-empty string: the left edge at or
\* before the origin, the top edge at or below it
BBoxes ==
    {[left |-> l, top |-> t, right |-> l + w, bottom |-> t + h] :
        l \in (-MaxBearing)..0, t \in 0..MaxBearing,
        w \in 0..MaxTextSide, h \in 0..MaxTextSide}

\* the boxes measured in the runs of the handler: the narrowest and the widest
\* non-empty text, with and without a bearing
PipelineBBoxes ==
    {b \in BBoxes : /\ b.left \in {-MaxBearing, 0}
                    /\ b.top = 0
                    /\ b.right - b.left \in {1, MaxTextSide}
                    /\ b.bottom - b.top = 1}

\* the descriptions and file names typed or passed while several calls follow
\* one another, and the box measured in those runs
FormDescriptions == {<<>>, <<"a">>}

FormFileNames == {<<>>, <<"p">>}

FormBBoxes == {b \in PipelineBBoxes : b.left = 0 /\ b.right = MaxTextSide}

\* what a failing pipe(description) raises: an error of the library, or the
\* user's interrupt and the like
GenRaises == {"RuntimeError"} \cup BaseOnly

\* what a failing image.save or display raises
IORaises == {"OSError", "KeyboardInterrupt"}

Unused == <<"unused", "unused", "unused">>

EnvOf(l, g, f, b, s, d) ==
    [load |-> l, gen |-> g, fonts |-> f, bbox |-> b, save |-> s, display |-> d]

FontsResolved == {<<"ok", "unused", "unused">>, <<"IOError", "ok", "unused">>,
                  <<"IOError", "IOError", "ok">>}

FontsFailed == {<<"IOError", "IOError", "IOError">>}

\* what the libraries answer during add_text_overlay(image, text)
OverlayEnvs(text) ==
    {EnvOf(l, "unused", f, b, "unused", "unused") :
        l \in {"ok", "raise"}, f \in FontsResolved,
        b \in IF text = <<>> THEN {ZeroBox} ELSE BBoxes}
    \cup {EnvOf(l, "unused", f, ZeroBox, "unused", "unused") :
        l \in {"ok", "raise"}, f \in FontsFailed}

\* what the libraries answer during generate_and_save_image(description, ...):
\* each answer is drawn only when the run gets to ask for it
HandlerEnvs(description) ==
    IF description = <<>>
    THEN {EnvOf(l, "unused", Unused, ZeroBox, "unused", "unused") : l \in {"ok", "raise"}}
    ELSE {EnvOf("raise", "unused", Unused, ZeroBox, "unused", "unused")}
         \cup {EnvOf("ok", g, Unused, ZeroBox, "unused", "unused") : g \in GenRaises}
         \cup {EnvOf("ok", "ok", f, ZeroBox, "unused", "unused") : f \in FontsFailed}
         \cup {EnvOf("ok", "ok", f, b, x, "unused") :
                 f \in FontsResolved, b \in PipelineBBoxes, x \in IORaises}
         \cup {EnvOf("ok", "ok", f, b, "ok", d) :
                 f \in FontsResolved, b \in PipelineBBoxes,
                 d \in {"ok"} \cup IORaises}

CallOf(o, i, t, d, n) ==
    [op |-> o, image |-> i, text |-> t, description |-> d, file_name |-> n]

OverlayCalls ==
    {CallOf("add_text_overlay", i, t, <<>>, <<>>) : i \in Images, t \in Captions}

HandlerCalls ==
    {CallOf("generate_and_save_image", NoImage, <<>>, d, n) :
        d \in Captions, n \in FileNames}

NoCall == CallOf("none", NoImage, <<>>, <<>>, <<>>)

-----------------------------------------------------------------------------------------------------------------------------------------------------
(* The state machines.  The initial state is the notebook after its cells  *)
(* ran (the model loaded or not, line 52).  Under Spec and SpecHandler one *)
(* call is about to be made and the action is that call, run to its end.   *)
(* Under SpecForm the form is submitted, the kernel takes the messages,    *)
(* generate_and_save_image is called from a cell and the model is loaded   *)
(* again, in any order.                                                    *)

InitWith(calls) ==
    /\ pc = "ready"
    /\ call \in calls
    /\ env \in IF call.op = "add_text_overlay"
               THEN OverlayEnvs(call.text)
               ELSE HandlerEnvs(call.description)
    /\ pipe = load_model(env.load)
    /\ heap = IF call.op = "add_text_overlay" THEN <<call.image>> ELSE <<>>
    /\ ret = Returned(0)
    /\ trace = <<>>
    /\ written = {}
    /\ queue = <<>>
    /\ browser = BrowserOf("none", <<>>, <<>>)

Init == InitWith(OverlayCalls)

InitHandler == InitWith(HandlerCalls)

InitForm ==
    /\ pc = "idle"
    /\ call = NoCall
    /\ env \in HandlerEnvs(<<>>)
    /\ pipe = load_model(env.load)
    /\ heap = <<>>
    /\ ret = Returned(0)
    /\ trace = <<>>
    /\ written = {}
    /\ queue = <<>>
    /\ browser = BrowserOf("none", <<>>, <<>>)

\* a caller passes its image (object 1) and a caption to add_text_overlay
AddTextOverlay ==
    /\ pc = "ready"
    /\ call.op = "add_text_overlay"
    /\ LET o == add_text_overlay(heap, 1, call.text, env)
       IN  /\ heap' = o.heap
           /\ ret' = o.ret
           /\ trace' = [i \in 1..Len(o.out) |-> Ev(o.out[i])]
    /\ pc' = "done"
    /\ UNCHANGED <<call, env, pipe, written, queue, browser>>

\* generate_and_save_image is called with the two strings of call
GenerateAndSaveImage ==
    /\ pc = "ready"
    /\ call.op = "generate_and_save_image"
    /\ LET r == generate_and_save_image(call.description, call.file_name, pipe, env)
       IN  /\ heap' = r.heap
           /\ ret' = RetOf(r)
           /\ trace' = r.trace
           /\ written' = r.written
    /\ pc' = "done"
    /\ UNCHANGED <<call, env, pipe, queue, browser>>

\* one run of generate_and_save_image in the kernel, as op, on (d, n) with the
\* libraries answering e
RunHandler(op, d, n, e) ==
    LET r == generate_and_save_image(d, n, pipe, e)
    IN  /\ call' = CallOf(op, NoImage, <<>>, d, n)
        /\ env' = e
        /\ heap' = r.heap
        /\ ret' = RetOf(r)
        /\ trace' = r.trace
        /\ written' = r.written
        /\ pc' = "done"

\* the answers the libraries can give with the model loaded as it is now
EnvsNow(d) ==
    {e \in HandlerEnvs(d) : e.load = env.load /\ e.bbox \in {ZeroBox} \cup FormBBoxes}

\* the form is submitted with the two fields as typed (browser, lines 180-191)
GenerateImage ==
    \E d \in FormDescriptions, n \in FormFileNames :
        LET g == generateImage(d, n)
        IN  /\ Len(queue) + Len(g.send) <= MaxQueue
            /\ queue' = queue \o g.send
            /\ browser' = BrowserOf(g.event, d, n)
            /\ UNCHANGED <<pc, call, env, pipe, heap, ret, trace, written>>

\* the kernel takes the oldest message and runs the registered callback
\* (line 202) on its two arguments
Callback ==
    /\ queue # <<>>
    /\ \E e \in EnvsNow(Head(queue).description) :
          RunHandler("callback", Head(queue).description, Head(queue).file_name, e)
    /\ queue' = Tail(queue)
    /\ UNCHANGED <<pipe, browser>>

\* a cell calls generate_and_save_image(d, n)
CellCall ==
    /\ \E d \in FormDescriptions, n \in FormFileNames :
          \E e \in EnvsNow(d) : RunHandler("generate_and_save_image", d, n, e)
    /\ UNCHANGED <<pipe, queue, browser>>

\* the loading cell runs again (lines 50-52) and rebinds pipe
LoadModel ==
    /\ \E o \in {"ok", "raise"} :
          /\ pipe' = load_model(o)
          /\ env' = [env EXCEPT !.load = o]
    /\ UNCHANGED <<pc, call, heap, ret, trace, written, queue, browser>>

Next == AddTextOverlay

NextHandler == GenerateAndSaveImage

NextForm == GenerateImage \/ Callback \/ CellCall \/ LoadModel

Spec == Init /\ [][Next]_vars

SpecHandler == InitHandler /\ [][NextHandler]_vars

SpecForm == InitForm /\ [][NextForm]_vars

-----
(* What the properties read off a finished call *)

OverlayDone == pc = "done" /\ call.op = "add_text_overlay"

OverlayReturned == OverlayDone /\ ret.kind = "returned"

HandlerDone == pc = "done" /\ call.op \in {"generate_and_save_image", "callback"}

\* the box textbbox measured in this call
Measured == textbbox(call.text, env.bbox)

\* the returned image, its backing plate and its caption
Out == heap[ret.id]

Plate == Out.draws[1]

Label == Out.draws[2]

\* the bottom edge of the caption as drawn: draw.text((x, y)) places the box
\* measured from the origin at the anchor, so its bottom edge is y + bottom
LabelBottom == Label.top + Measured.bottom

Abs(n) == IF n < 0 THEN -n ELSE n

Events == {trace[i].ev : i \in 1..Len(trace)}

Last(t) == t[Len(t)]

ExpectedName ==
    IF EndsWith(call.file_name, PngSuffix)
    THEN call.file_name
    ELSE call.file_name \o PngSuffix

-----------------------------------------------------------------------------
(* Properties of add_text_overlay, checked under Spec *)

\* C1: whenever add_text_overlay returns for a non-empty caption, the returned
\* image has the width and the height of the image it was given, whatever the
\* colour mode of that image.
C1_SameSize ==
    (OverlayReturned /\ call.text # <<>>) =>
        /\ Out.width = call.image.width
        /\ Out.height = call.image.height

C1_Witness ==
    /\ OverlayReturned
    /\ call.text # <<>>
    /\ call.image.mode = "L"
    /\ call.image.width # call.image.height
    /\ Out.width = call.image.width

\* C2: the plate's bottom edge is 10 pixels above the caption's measured bottom
\* edge, and the caption's bottom edge is 10 pixels above the image's bottom edge.
C2_AsStated ==
    OverlayReturned =>
        /\ Plate.bottom = LabelBottom - 10
        /\ LabelBottom = call.image.height - 10

\* C3 as stated: on a 512x512 image with measured text width W and height H the
\* plate's corners are ((512-W)/2 - 10, 512-H-20) and ((512-W)/2 + W + 10, 512-10).
C3_AsStated ==
    (OverlayReturned /\ call.image.width = 512 /\ call.image.height = 512) =>
        LET W == TextWidth(Measured)
            H == TextHeight(Measured)
        IN  /\ Plate.left2 = (512 - W) - 20
            /\ Plate.top = 512 - H - 20
            /\ Plate.right2 = (512 - W) + 2 * W + 20
            /\ Plate.bottom = 512 - 10

\* C3 amended: the corners are ((512-W)/2 - 10, 512-H-20) and
\* ((512-W)/2 + W + 10, 512): the plate ends on the image's bottom edge.
C3_Corners ==
    (OverlayReturned /\ call.image.width = 512 /\ call.image.height = 512) =>
        LET W == TextWidth(Measured)
            H == TextHeight(Measured)
        IN  /\ Plate.left2 = (512 - W) - 20
            /\ Plate.top = 512 - H - 20
            /\ Plate.right2 = (512 - W) + 2 * W + 20
            /\ Plate.bottom = 512

C3_Witness ==
    /\ OverlayReturned
    /\ call.image.width = 512
    /\ call.image.height = 512
    /\ TextWidth(Measured) = MaxTextSide
    /\ TextHeight(Measured) > 0
    /\ Plate.op = "rectangle"

\* C4: for a caption measured narrower than the image, the horizontal centre of
\* the caption as drawn, x + (left + right)/2, is within one pixel of
\* image_width/2 (here in half pixels: twice the centre within 2 of the width).
C4_Centred ==
    (OverlayReturned /\ TextWidth(Measured) < call.image.width) =>
        Abs((Label.left2 + Measured.left + Measured.right) - call.image.width) <= 2

\* C5: no exception escapes add_text_overlay; when the first and the second
\* font fail to load, a fallback font is resolved and the call returns an image.
C5_FontNeverRaises ==
    (OverlayDone /\ env.fonts[1] # "ok" /\ env.fonts[2] # "ok") =>
        /\ ret.kind = "returned"
        /\ Label.font = "default"

\* C8: add_text_overlay leaves the image object it was given as it was (size,
\* mode, pixels), also when it is already RGBA; what it returns is another
\* object, and the plate and the caption are drawn on that one.
C8_InputUnchanged ==
    OverlayDone =>
        /\ heap[1] = call.image
        /\ ret.kind = "returned" =>
              /\ ret.id # 1
              /\ Plate.op = "rectangle"
              /\ Label.op = "text"
              /\ Len(Out.draws) = 2

C8_Witness ==
    /\ OverlayReturned
    /\ call.image.mode = "RGBA"
    /\ Len(Out.draws) = 2
    /\ heap[1].draws = <<>>

\* C9: for a caption measured wider than the image (so a font was resolved),
\* add_text_overlay returns an image of the input's size, the plate is not
\* clamped (its left x below 0, its right x above the image width), and the
\* caption's y is image_height - text_height - 10 as for any caption.
C9_LongCaption ==
    (/\ OverlayDone
     /\ ResolveFont(env.fonts).exc = "none"
     /\ TextWidth(Measured) > call.image.width) =>
        /\ ret.kind = "returned"
        /\ Out.width = call.image.width
        /\ Out.height = call.image.height
        /\ Plate.left2 < 0
        /\ Plate.right2 > 2 * call.image.width
        /\ Label.top = call.image.height - TextHeight(Measured) - 10

C9_Witness ==
    /\ OverlayReturned
    /\ TextWidth(Measured) > call.image.width
    /\ Plate.left2 < 0

-----------------------------------------------------------------------------
(* Properties of generate_and_save_image and the form, checked under       *)
(* SpecHandler                                                             *)

\* C6: whenever a run reaches the save, the path written ends in ".png", is
\* the root, "/" and the given name (with ".png" appended exactly when the name
\* does not end in it), so lies under the root, and the path displayed is it.
C6_PathUnderRoot ==
    HandlerDone =>
        \A i \in 1..Len(trace) :
            trace[i].ev = "save" =>
                /\ EndsWith(trace[i].path, PngSuffix)
                /\ StartsWith(trace[i].path, Root \o <<"/">>)
                /\ trace[i].path = Root \o <<"/">> \o ExpectedName
                /\ \A j \in 1..Len(trace) :
                      trace[j].ev = "display" => trace[j].path = trace[i].path

\* the generator, the overlay, the save and the display in their order: a
\* save comes only after the generator and the overlay succeeded, a display
\* only after the save
PipelineOrdered ==
    \A i \in 1..Len(trace) :
        /\ trace[i].ev = "save" =>
              /\ pipe = "pipeline" /\ env.gen = "ok"
              /\ \E j \in 1..(i - 1) :
                    /\ trace[j].ev = "overlay"
                    /\ \E k \in 1..(j - 1) : trace[k].ev = "pipe"
              /\ Len(heap) = 2 /\ Len(heap[2].draws) = 2
        /\ trace[i].ev = "display" =>
              /\ \E j \in 1..(i - 1) : trace[j].ev = "save"
              /\ env.save = "ok"
              /\ written # {}

GeneratorFailed == pipe = "None" \/ env.gen # "ok"

\* C7 as stated: a failing generator (the pipe call raises, or pipe is None) is
\* caught and reported by a printed message, nothing is raised to the caller,
\* and that run neither overlays nor saves nor displays; a save comes only
\* after the generator and the overlay succeeded, a display only after the save.
C7_AsStated ==
    HandlerDone =>
        /\ (call.description # <<>> /\ GeneratorFailed) =>
              /\ ret.kind = "returned"
              /\ "pipe" \in Events
              /\ Last(trace).ev = "print_error"
              /\ Events \cap {"overlay", "save", "display"} = {}
              /\ written = {}
        /\ PipelineOrdered

\* C7 amended: when the pipe call raises an instance of Exception (the
\* TypeError of a None pipe included) it is caught, reported by a printed
\* message and not raised to the caller; when it raises anything else
\* (KeyboardInterrupt, SystemExit, GeneratorExit) that leaves the function and
\* no message is printed; either way the run neither overlays nor saves nor
\* displays.  A save comes only after the generator and the overlay succeeded,
\* a display only after the save.
C7_GeneratorFailureCaught ==
    HandlerDone =>
        /\ (call.description # <<>> /\ GeneratorFailed) =>
              /\ "pipe" \in Events
              /\ Events \cap {"overlay", "save", "display"} = {}
              /\ written = {}
              /\ IF pipe = "None" \/ IsException(env.gen)
                 THEN /\ ret.kind = "returned"
                      /\ Last(trace).ev = "print_error"
                 ELSE /\ ret = Raised(env.gen)
                      /\ Last(trace).ev = "pipe"
        /\ ret.kind = "raised" => ret.exc \in BaseOnly
        /\ PipelineOrdered

C7_Witness ==
    /\ HandlerDone
    /\ call.op = "generate_and_save_image"
    /\ call.description # <<>>
    /\ pipe = "None"
    /\ Last(trace).ev = "print_error"
    /\ ret.kind = "returned"

-----------------------------------------------------------------------------
(* Properties of the form and the callback, checked under SpecForm *)

\* C10: the pipeline never runs with an empty description: the form sends the
\* callback's message exactly when both fields are non-empty (an alert
\* otherwise), so every message waiting and every run of the callback has both;
\* generate_and_save_image with an empty description only prints and returns;
\* and nothing else is validated: any non-empty description reaches the
\* generator whatever the file name, and the empty file name passed directly
\* is saved as ".png".
C10_OnlyEmptinessChecked ==
    /\ browser.event # "none" =>
          /\ browser.event = "invoke"
                <=> (browser.description # <<>> /\ browser.filename # <<>>)
          /\ browser.event \in {"invoke", "alert"}
    /\ \A i \in 1..Len(queue) :
          queue[i].description # <<>> /\ queue[i].file_name # <<>>
    /\ HandlerDone =>
          /\ Events \cap {"pipe", "overlay", "save", "display"} # {}
                => call.description # <<>>
          /\ call.op = "callback" =>
                (call.description # <<>> /\ call.file_name # <<>>)
          /\ call.description = <<>> =>
                /\ trace = <<Ev("print_required")>>
                /\ ret.kind = "returned"
          /\ call.description # <<>> => "pipe" \in Events
          /\ \A i \in 1..Len(trace) :
                (trace[i].ev = "save" /\ call.file_name = <<>>) =>
                    trace[i].path = Root \o <<"/">> \o PngSuffix

C10_Witness ==
    /\ HandlerDone
    /\ call.op = "generate_and_save_image"
    /\ call.description # <<>>
    /\ call.file_name = <<>>
    /\ \E i \in 1..Len(trace) :
          trace[i].ev = "save" /\ trace[i].path = Root \o <<"/">> \o PngSuffix
    /\ Last(trace).ev = "print_description"
    /\ browser.event = "alert"
    /\ queue # <<>>

====
